---- MODULE Spec2Model ----
(***************************************************************************)
(* Swarm coordination core of fractal-swarm: the opportunity claim         *)
(* registry (QuantumStateLock over a Redis key with SET NX EX), the        *)
(* capital pool (SwarmCapitalPool.requestCapital) with the ledger          *)
(* operations the documents describe but do not list (Release, Settle,     *)
(* Abort), heartbeats and resurrection (QuantumBackup), the temporal wave  *)
(* scheduler and knowledge propagation.                                    *)
(***************************************************************************)
EXTENDS Integers, FiniteSets, Sequences, TLC

\* ---------------------------------------------------------------- bounds
NumClones == 2
NumFingerprints == 2
InitialBalance == 2
MaxAmount == 2
MaxLoss == 2
MaxGain == 1

\* ------------------------------------------------------ program constants
\* redis_client.set(..., ex=5): the key lives 5 seconds
LOCK_EX == 5
\* Redis nil: no value under the key
NoClone == 0

Clones == 1..NumClones
Fingerprints == 1..NumFingerprints
Amounts == 1..MaxAmount
PnLs == ((0 - MaxLoss)..MaxGain) \ {0}

VARIABLES
    locks,              \* Redis keys "opp:<hash>": value (clone id) and seconds to live
    rights,             \* per clone and fingerprint: seconds since it was told True
    ret,                \* what the last call returned
    opportunityLocks,   \* SwarmCapitalPool.opportunityLocks
    total_balance,      \* pool balance
    committed,          \* sum handed out to live reservations
    reservations,       \* reservation table, reservation_id = index
    halted,             \* the pool stopped after an invariant violation
    pnl_sum,            \* sum of realized_pnl of all successful Settle calls
    burst,              \* a simultaneous burst: its fingerprint, callers not yet served
    reply,              \* per clone: the answer it got in the burst
    clock,              \* time.time(), in seconds
    sibling_states,     \* QuantumBackup.sibling_states: sibling_id -> last_heartbeat
    status,             \* per clone: active, suspected or retired
    inflight,           \* heartbeats sent and not yet delivered
    seen_max,           \* per clone: the greatest timestamp among its delivered heartbeats
    sched,              \* a schedule_transaction call: its arguments and the delay returned
    prop,               \* a propagate_discovery call: its limit, the ring reached, the accuracy sent
    genome,             \* the genome followed down its lineage: generation and parameters
    mutation_lineage,   \* its audit log: {timestamp, parameter, old, new}
    gen_clock,          \* the time stamped on lineage entries
    store,              \* useTradingStore: the state object of the trading store
    store_clock,        \* Date.now() of the browser, one tick per call on the store
    store_call,         \* the last call on the store and its argument
    localStorage,       \* the browser's localStorage: authToken, refreshToken, tokenExpiry
    auth_clock,         \* Date.now() / 1000
    auth_ret,           \* the last call on AuthManager and what it returned
    ensure,             \* an ensureValidToken call waiting for the refresh endpoint
    request             \* a request sent through the intercepted axios instance

ledgerVars == <<opportunityLocks, total_balance, committed, reservations, halted, pnl_sum>>
burstVars == <<burst, reply>>
backupVars == <<clock, sibling_states, status, inflight, seen_max>>
waveVars == <<sched, prop>>
genomeVars == <<genome, mutation_lineage, gen_clock>>
storeVars == <<store, store_clock, store_call>>
authVars == <<localStorage, auth_clock, auth_ret, ensure, request>>
restVars == <<genomeVars, storeVars, authVars>>
vars == <<locks, rights, ret, opportunityLocks, total_balance, committed,
          reservations, halted, pnl_sum, burst, reply,
          clock, sibling_states, status, inflight, seen_max, sched, prop,
          genome, mutation_lineage, gen_clock,
          store, store_clock, store_call,
          localStorage, auth_clock, auth_ret, ensure, request>>

NoLock == [holder |-> NoClone, ttl |-> 0]
NoBurst == [fp |-> 0, waiting |-> {}]
NoSchedule == [clone_id |-> 0, urgency_score |-> 0, delay |-> -1]
NoPropagation == [max |-> 0, distance |-> 0, accuracy |-> 100]
\* The genome of the first clone: a response delay and a schedule offset
\* (numeric) and the first of its preferred venues (categorical).
RootGenome == [generation |-> 0,
               params |-> [response_delay |-> 100, schedule_offset |-> 50,
                           preferred_venues |-> 1]]

\* The trading store as it is created: disconnected and empty.  A Map is the
\* set of its values, each of which carries its key (clone.id, position.id,
\* opportunity.id, data.symbol); swarmStats is null ({}) or one SwarmStats.
InitialState ==
    [connectionState |-> [status |-> "disconnected", reconnectAttempts |-> 0],
     swarmStats |-> {},
     clones |-> {},
     positions |-> {},
     recentTrades |-> <<>>,
     mevOpportunities |-> {},
     marketData |-> {},
     alerts |-> <<>>,
     performanceHistory |-> <<>>]
NoCall == [op |-> "none", type |-> "", id |-> 0]

\* localStorage without the three keys of AuthManager.  A key that is not
\* there reads as NoToken (the token keys) or as the empty string (the expiry).
NoToken == 0
EmptyStorage == [authToken |-> NoToken, refreshToken |-> NoToken, tokenExpiry |-> <<>>]
\* a call, the token it returned and what happened to the stored tokens
NoAuthCall == [op |-> "none", token |-> NoToken, refreshed |-> "none"]
NoEnsure == [pc |-> "idle", refreshToken |-> NoToken]
NoRequest == [pc |-> "idle", retry |-> FALSE, Authorization |-> NoToken,
              sends |-> 0, refreshes |-> 0]

\* The return value of a call, with the call it answers.  holder_id is the
\* holder a denial names; claim_opportunity returns a bare True/False.
RetA(op, ok, err, c, f) ==
    [op |-> op, ok |-> ok, err |-> err, clone |-> c, fp |-> f, holder_id |-> NoClone]
Ret(op, ok, err) == RetA(op, ok, err, NoClone, 0)

\* ------------------------------------------------------- claim registry
LiveHolder_noexpiry(f) == locks[f].holder

\* What a read of the key "opp:<f>" sees: the holder while the key has time
\* to live, nil once it ran out (the stale value is never seen again).
LiveHolder(f) ==
    IF locks[f].holder # NoClone /\ locks[f].ttl > 0
    THEN locks[f].holder
    ELSE NoClone

SetNxEx_overwrite(f, c, ex) ==
    [claimed |-> TRUE, keys |-> [locks EXCEPT ![f] = [holder |-> c, ttl |-> ex]]]

SetNxEx_short(f, c, ex) ==
    IF LiveHolder(f) = NoClone
    THEN [claimed |-> TRUE, keys |-> [locks EXCEPT ![f] = [holder |-> c, ttl |-> ex - 1]]]
    ELSE [claimed |-> FALSE, keys |-> locks]

SetNxEx_touch(f, c, ex) ==
    IF LiveHolder(f) = NoClone
    THEN [claimed |-> TRUE, keys |-> [locks EXCEPT ![f] = [holder |-> c, ttl |-> ex]]]
    ELSE [claimed |-> FALSE, keys |-> [locks EXCEPT ![f].ttl = ex]]

SetNxEx_refresh(f, c, ex) ==
    IF LiveHolder(f) \in {NoClone, c}
    THEN [claimed |-> TRUE, keys |-> [locks EXCEPT ![f] = [holder |-> c, ttl |-> ex]]]
    ELSE [claimed |-> FALSE, keys |-> locks]

\* redis_client.set(lock_key, clone_id, nx=True, ex=5): the value is written
\* with ex seconds to live only when the key does not exist; otherwise
\* nothing is written and the reply is nil.
SetNxEx(f, c, ex) ==
    IF LiveHolder(f) = NoClone
    THEN [claimed |-> TRUE, keys |-> [locks EXCEPT ![f] = [holder |-> c, ttl |-> ex]]]
    ELSE [claimed |-> FALSE, keys |-> locks]

\* "Clone has exclusive rights for 5 seconds": the clone that was told True
\* acts on the opportunity until 5 seconds have passed or it gives it up.
HasRights(c, f) == rights[c][f] >= 0 /\ rights[c][f] < LOCK_EX

\* QuantumStateLock.claim_opportunity(opportunity_hash, clone_id)
claim_opportunity(opportunity_hash, clone_id) ==
    LET set == SetNxEx(opportunity_hash, clone_id, LOCK_EX) IN
    /\ locks' = set.keys
    /\ rights' = IF set.claimed
                 THEN [rights EXCEPT ![clone_id][opportunity_hash] = 0]
                 ELSE rights
    /\ ret' = RetA("claim_opportunity", set.claimed, "", clone_id, opportunity_hash)
    /\ UNCHANGED ledgerVars

ReleaseLock_any(f, c) ==
    /\ locks' = [locks EXCEPT ![f] = NoLock]
    /\ rights' = [rights EXCEPT ![c][f] = -1]

ReleaseLock_none(f, c) == UNCHANGED <<locks, rights>>

\* What Release does to the lock table: the key is deleted only when it still
\* holds the caller's id; the caller gives up the opportunity either way.
ReleaseLock(f, c) ==
    /\ locks' = IF LiveHolder(f) = c THEN [locks EXCEPT ![f] = NoLock] ELSE locks
    /\ rights' = [rights EXCEPT ![c][f] = -1]

\* Release(fingerprint, clone_id)
Release(f, c) ==
    /\ ReleaseLock(f, c)
    /\ ret' = RetA("Release", TRUE, "", c, f)
    /\ UNCHANGED ledgerVars

\* One second passes: every key with time to live loses a second.  A key that
\* ran out is left as it is; only the next access finds it gone.
Tick ==
    /\ locks' = [f \in Fingerprints |->
                    IF locks[f].ttl > 0
                    THEN [locks[f] EXCEPT !.ttl = @ - 1]
                    ELSE locks[f]]
    /\ rights' = [c \in Clones |-> [f \in Fingerprints |->
                    IF rights[c][f] >= 0 /\ rights[c][f] + 1 < LOCK_EX
                    THEN rights[c][f] + 1 ELSE -1]]
    /\ UNCHANGED ret
    /\ UNCHANGED ledgerVars

\* --------------------------------------------------------- capital pool
\* totalPoolBalance(): what the pool can still hand out.
totalPoolBalance == total_balance - committed

NotClaimed_nocheck(oppId) == TRUE

\* require(!opportunityLocks[oppId], "Already claimed")
NotClaimed(oppId) == ~opportunityLocks[oppId]

PoolCovers_nocheck(amount) == TRUE

PoolCovers_strict(amount) == totalPoolBalance > amount

\* require(totalPoolBalance() >= amount, "Insufficient pool")
PoolCovers(amount) == totalPoolBalance >= amount

TransferLogic_unit(sender, amount, oppId) ==
    /\ committed' = committed + 1
    /\ total_balance' = total_balance
    /\ reservations' = Append(reservations,
            [clone |-> sender, fp |-> oppId, amount |-> amount, state |-> "held"])
    /\ ret' = Ret("requestCapital", TRUE, "")

TransferLogic_leak(sender, amount, oppId) ==
    /\ committed' = committed + amount
    /\ total_balance' = total_balance - amount
    /\ reservations' = Append(reservations,
            [clone |-> sender, fp |-> oppId, amount |-> amount, state |-> "held"])
    /\ ret' = Ret("requestCapital", TRUE, "")

\* "// Transfer logic": the amount is set aside for the caller as a held
\* reservation; the balance itself moves only when the trade is settled.
TransferLogic(sender, amount, oppId) ==
    /\ committed' = committed + amount
    /\ total_balance' = total_balance
    /\ reservations' = Append(reservations,
            [clone |-> sender, fp |-> oppId, amount |-> amount, state |-> "held"])
    /\ ret' = Ret("requestCapital", TRUE, "")

\* A failed require reverts the call: nothing is written.
Revert(op, reason) ==
    /\ ret' = Ret(op, FALSE, reason)
    /\ UNCHANGED ledgerVars

\* SwarmCapitalPool.requestCapital(amount, oppId), called by sender
requestCapital(sender, amount, oppId) ==
    /\ IF ~NotClaimed(oppId)
       THEN Revert("requestCapital", "Already claimed")
       ELSE IF ~PoolCovers(amount)
       THEN Revert("requestCapital", "Insufficient pool")
       ELSE /\ opportunityLocks' = [opportunityLocks EXCEPT ![oppId] = TRUE]
            /\ TransferLogic(sender, amount, oppId)
            /\ UNCHANGED <<halted, pnl_sum>>
    /\ UNCHANGED <<locks, rights>>

IsHeld_any(id) == id \in DOMAIN reservations

\* The reservation exists and is in the state Settle and Abort expect.
IsHeld(id) == id \in DOMAIN reservations /\ reservations[id].state = "held"

\* total_balance += realized_pnl
SettledBalance_drop(balance, realized_pnl) == balance

SettledBalance(balance, realized_pnl) == balance + realized_pnl

\* committed -= amount
Returned_keep(com, amount) == com

Returned(com, amount) == com - amount

\* Settle(reservation_id, realized_pnl).  A call that would leave
\* committed > total_balance writes nothing and halts the pool.  The discovery
\* bonus divides realized_pnl among the clones; it moves no pool total.
Settle(id, realized_pnl) ==
    /\ IF ~IsHeld(id)
       THEN Revert("Settle", "ReservationConflict")
       ELSE IF halted
       THEN Revert("Settle", "Halted")
       ELSE LET balance == SettledBalance(total_balance, realized_pnl)
                com == Returned(committed, reservations[id].amount)
            IN  IF com > balance
                THEN /\ halted' = TRUE
                     /\ ret' = Ret("Settle", FALSE, "PoolInvariantViolation")
                     /\ UNCHANGED <<opportunityLocks, total_balance, committed,
                                    reservations, pnl_sum>>
                ELSE /\ total_balance' = balance
                     /\ committed' = com
                     /\ reservations' = [reservations EXCEPT ![id].state = "committed"]
                     /\ pnl_sum' = pnl_sum + realized_pnl
                     /\ ret' = Ret("Settle", TRUE, "")
                     /\ UNCHANGED <<opportunityLocks, halted>>
    /\ UNCHANGED <<locks, rights>>

\* Abort(reservation_id): the full amount returns to the pool and the
\* reservation's clone releases its lock.
Abort(id) ==
    /\ IF ~IsHeld(id)
       THEN Revert("Abort", "ReservationConflict") /\ UNCHANGED <<locks, rights>>
       ELSE IF halted
       THEN Revert("Abort", "Halted") /\ UNCHANGED <<locks, rights>>
       ELSE /\ committed' = Returned(committed, reservations[id].amount)
            /\ reservations' = [reservations EXCEPT ![id].state = "released"]
            /\ ReleaseLock(reservations[id].fp, reservations[id].clone)
            /\ ret' = Ret("Abort", TRUE, "")
            /\ UNCHANGED <<opportunityLocks, total_balance, halted, pnl_sum>>

ReservationIds == 1..NumFingerprints

\* Sum of the amounts of the reservations 1..n that are in state held.
RECURSIVE HeldSum(_)
HeldSum(n) ==
    IF n = 0 THEN 0
    ELSE HeldSum(n - 1) + (IF reservations[n].state = "held"
                           THEN reservations[n].amount ELSE 0)

\* committed as the spec defines it: the sum of live reservations.
LiveReservations == HeldSum(Len(reservations))

IdleCore ==
    /\ locks = [f \in Fingerprints |-> NoLock]
    /\ rights = [c \in Clones |-> [f \in Fingerprints |-> -1]]
    /\ ret = Ret("none", TRUE, "")
    /\ opportunityLocks = [f \in Fingerprints |-> FALSE]
    /\ total_balance = InitialBalance
    /\ committed = 0
    /\ reservations = <<>>
    /\ halted = FALSE
    /\ pnl_sum = 0
    /\ burst = NoBurst
    /\ reply = [c \in Clones |-> "none"]
    /\ clock = 0
    /\ sibling_states = [c \in Clones |-> 0]
    /\ status = [c \in Clones |-> "active"]
    /\ inflight = {}
    /\ seen_max = [c \in Clones |-> 0]
    /\ genome = RootGenome
    /\ mutation_lineage = <<>>
    /\ gen_clock = 0

IdleStore ==
    /\ store = InitialState
    /\ store_clock = 0
    /\ store_call = NoCall

IdleAuth ==
    /\ localStorage = EmptyStorage
    /\ auth_clock = 0
    /\ auth_ret = NoAuthCall
    /\ ensure = NoEnsure
    /\ request = NoRequest

InitCore ==
    /\ IdleCore
    /\ IdleStore
    /\ IdleAuth

Init ==
    /\ InitCore
    /\ sched = NoSchedule
    /\ prop = NoPropagation

TryClaimStep == \E c \in Clones, f \in Fingerprints :
                    claim_opportunity(f, c) /\ UNCHANGED <<burstVars, backupVars, waveVars, restVars>>
ReleaseStep == \E c \in Clones, f \in Fingerprints :
                    Release(f, c) /\ UNCHANGED <<burstVars, backupVars, waveVars, restVars>>
TickStep == Tick /\ UNCHANGED <<burstVars, backupVars, waveVars, restVars>>

ReserveStep == \E c \in Clones, f \in Fingerprints, a \in Amounts :
                    requestCapital(c, a, f) /\ UNCHANGED <<burstVars, backupVars, waveVars, restVars>>
SettleStep == \E id \in ReservationIds, p \in PnLs :
                    Settle(id, p) /\ UNCHANGED <<burstVars, backupVars, waveVars, restVars>>
AbortStep == \E id \in ReservationIds : Abort(id) /\ UNCHANGED <<burstVars, backupVars, waveVars, restVars>>
\* Settle with a loss of one unit: the one outcome drawn where the registry
\* and the pool run together (SpecLedger draws every pnl of PnLs).
SettleLossStep == \E id \in ReservationIds :
                    Settle(id, 0 - 1) /\ UNCHANGED <<burstVars, backupVars, waveVars, restVars>>

Next ==
    \/ TryClaimStep
    \/ ReleaseStep
    \/ TickStep
    \/ ReserveStep
    \/ SettleLossStep
    \/ AbortStep

Spec == Init /\ [][Next]_vars

\* A burst of simultaneous callers: while no live lock exists on f, every clone
\* of S sends claim_opportunity(f, .) within the same instant.
BurstStart(S, f) ==
    /\ burst.waiting = {}
    /\ LiveHolder(f) = NoClone
    /\ Cardinality(S) >= 2
    /\ burst' = [fp |-> f, waiting |-> S]
    /\ reply' = [c \in Clones |-> "none"]
    /\ UNCHANGED <<locks, rights, ret>>
    /\ UNCHANGED ledgerVars
    /\ UNCHANGED <<backupVars, waveVars, restVars>>

\* Redis serves the waiting calls one at a time, in any order.
BurstServe(c) ==
    /\ c \in burst.waiting
    /\ claim_opportunity(burst.fp, c)
    /\ burst' = [burst EXCEPT !.waiting = @ \ {c}]
    /\ reply' = [reply EXCEPT ![c] = IF ret'.ok THEN "Granted" ELSE "Denied"]
    /\ UNCHANGED <<backupVars, waveVars, restVars>>

BurstStartStep == \E S \in SUBSET Clones, f \in Fingerprints : BurstStart(S, f)
BurstServeStep == \E c \in Clones : BurstServe(c)
BurstReleaseStep == burst.waiting = {} /\ ReleaseStep
BurstTickStep == burst.waiting = {} /\ TickStep

NextRegistry ==
    \/ TryClaimStep
    \/ ReleaseStep
    \/ TickStep

SpecRegistry == Init /\ [][NextRegistry]_vars

NextLedger ==
    \/ ReserveStep
    \/ SettleStep
    \/ AbortStep

SpecLedger == Init /\ [][NextLedger]_vars

NextBurst ==
    \/ BurstStartStep
    \/ BurstServeStep
    \/ BurstReleaseStep
    \/ BurstTickStep

SpecBurst == Init /\ [][NextBurst]_vars

\* Settle with the largest loss drawn: the outcome that can halt the pool
\* while other reservations are still held.
SettleBigLossStep == \E id \in ReservationIds :
                    Settle(id, 0 - MaxLoss) /\ UNCHANGED <<burstVars, backupVars, waveVars, restVars>>

\* Clone failure handling: claims, reservations, a heavy loss, aborts and the
\* passing of time.
NextAbort ==
    \/ TryClaimStep
    \/ TickStep
    \/ ReserveStep
    \/ SettleBigLossStep
    \/ AbortStep

SpecAbort == Init /\ [][NextAbort]_vars

\* Settle with a loss greater than the whole initial pool.
SettleRuinStep == \E id \in ReservationIds :
                    Settle(id, 0 - (InitialBalance + 1)) /\ UNCHANGED <<burstVars, backupVars, waveVars, restVars>>

\* The ledger with ruinous trades: a single reservation can end in the fatal
\* state while fingerprints are still unclaimed.
NextHalt ==
    \/ ReserveStep
    \/ SettleStep
    \/ SettleRuinStep
    \/ AbortStep

SpecHalt == Init /\ [][NextHalt]_vars

\* ------------------------------------------- heartbeats and resurrection
\* "if time.time() - last_heartbeat > 60:  # 1 minute timeout"
HEARTBEAT_TIMEOUT == 60
\* "self.resurrection_threshold = 0.7", in hundredths of the state
resurrection_threshold == 70
\* a clone sends a heartbeat every 30 seconds
HeartbeatInterval == 30
\* k, the number of missed heartbeat intervals that makes a clone suspected
MissedK == 3
\* the hundredths of a failed clone's state its siblings retain: F 0.40 and
\* G 0.35, and a third sibling with 0.30
Shares == <<40, 35, 30>>

\* the clock is read every StepSeconds seconds, up to MaxClock
StepSeconds == 15
MaxClock == 90
\* at most so many heartbeats are on their way at a time
MaxInFlight == 2

Siblings == DOMAIN Shares
Timestamps == {t \in 0..MaxClock : t % StepSeconds = 0}

Later(a, b) == IF a > b THEN a ELSE b

Heartbeat_lastwrite(clone_id, ts) ==
    /\ sibling_states' = [sibling_states EXCEPT ![clone_id] = ts]
    /\ seen_max' = [seen_max EXCEPT ![clone_id] = Later(@, ts)]
    /\ ret' = RetA("Heartbeat", TRUE, "", clone_id, 0)

\* Heartbeat(clone_id, partial_state_snapshot), the snapshot being the clone's
\* state at the time ts the heartbeat was sent: the record takes the
\* heartbeat unless it is older than the recorded one, which is discarded.
Heartbeat(clone_id, ts) ==
    /\ sibling_states' = [sibling_states EXCEPT ![clone_id] =
                            IF ts < @ THEN @ ELSE ts]
    /\ seen_max' = [seen_max EXCEPT ![clone_id] = Later(@, ts)]
    /\ ret' = RetA("Heartbeat", TRUE,
                   IF ts < sibling_states[clone_id] THEN "discarded" ELSE "",
                   clone_id, 0)

\* A clone sends a heartbeat stamped with the current time.
SendHeartbeat(c) ==
    /\ Cardinality(inflight) < MaxInFlight
    /\ [clone |-> c, ts |-> clock] \notin inflight
    /\ inflight' = inflight \cup {[clone |-> c, ts |-> clock]}
    /\ UNCHANGED <<clock, sibling_states, status, seen_max>>

\* The registry receives one of the heartbeats on their way, in any order.
DeliverHeartbeat(h) ==
    /\ h \in inflight
    /\ inflight' = inflight \ {h}
    /\ Heartbeat(h.clone, h.ts)
    /\ UNCHANGED <<clock, status>>

\* A heartbeat that arrives the moment it is sent.
HeartbeatNow(c) ==
    /\ Heartbeat(c, clock)
    /\ UNCHANGED <<clock, status, inflight>>

ClockAdvance ==
    /\ clock + StepSeconds <= MaxClock
    /\ clock' = clock + StepSeconds
    /\ UNCHANGED <<sibling_states, status, inflight, seen_max>>

TimedOut_eager(sibling_id) == clock - sibling_states[sibling_id] >= HEARTBEAT_TIMEOUT

\* time.time() - last_heartbeat > 60
TimedOut(sibling_id) == clock - sibling_states[sibling_id] > HEARTBEAT_TIMEOUT

\* attempt_resurrection(sibling_id), first half: an active clone becomes
\* suspected; a clone that is suspected already or retired stays as it is.
attempt_resurrection(sibling_id) ==
    IF status[sibling_id] = "active"
    THEN [status EXCEPT ![sibling_id] = "suspected"]
    ELSE status

\* QuantumBackup.monitor_siblings, one turn of its loop
monitor_siblings(sibling_id) ==
    /\ status' = IF TimedOut(sibling_id)
                 THEN attempt_resurrection(sibling_id)
                 ELSE status
    /\ UNCHANGED <<clock, sibling_states, inflight, seen_max>>

\* Summed coverage of the siblings that answer.
RECURSIVE Coverage(_)
Coverage(avail) ==
    IF avail = {} THEN 0
    ELSE LET s == CHOOSE x \in avail : TRUE
         IN  Shares[s] + Coverage(avail \ {s})

Resurrectable_strict(avail) == Coverage(avail) > resurrection_threshold

\* coverage >= resurrection_threshold
Resurrectable(avail) == Coverage(avail) >= resurrection_threshold

\* The reservations a clone holds.
HeldBy(c) == {i \in DOMAIN reservations :
                reservations[i].clone = c /\ reservations[i].state = "held"}

RECURSIVE SumAmounts(_)
SumAmounts(ids) ==
    IF ids = {} THEN 0
    ELSE LET i == CHOOSE x \in ids : TRUE
         IN  reservations[i].amount + SumAmounts(ids \ {i})

AbortAll_forget(c) == UNCHANGED <<ledgerVars, locks, rights>>

\* The ledger is told to Abort every reservation the clone held; a halted
\* pool rejects each of these calls.
AbortAll(c) ==
    IF halted
    THEN UNCHANGED <<ledgerVars, locks, rights>>
    ELSE /\ reservations' = [i \in DOMAIN reservations |->
                IF i \in HeldBy(c)
                THEN [reservations[i] EXCEPT !.state = "released"]
                ELSE reservations[i]]
         /\ committed' = Returned(committed, SumAmounts(HeldBy(c)))
         /\ locks' = [f \in Fingerprints |->
                IF LiveHolder(f) = c /\ \E i \in HeldBy(c) : reservations[i].fp = f
                THEN NoLock ELSE locks[f]]
         /\ rights' = [rights EXCEPT ![c] = [f \in Fingerprints |->
                IF \E i \in HeldBy(c) : reservations[i].fp = f
                THEN -1 ELSE rights[c][f]]]
         /\ UNCHANGED <<opportunityLocks, total_balance, halted, pnl_sum>>

\* attempt_resurrection(sibling_id), second half: reconstruction from the
\* siblings avail that answer.
Reconstruct(c, avail) ==
    /\ status[c] = "suspected"
    /\ IF Resurrectable(avail)
       THEN /\ status' = [status EXCEPT ![c] = "active"]
            /\ ret' = RetA("Reconstruct", TRUE, "", c, 0)
            /\ UNCHANGED <<ledgerVars, locks, rights>>
       ELSE /\ status' = [status EXCEPT ![c] = "retired"]
            /\ ret' = RetA("Reconstruct", FALSE, "ResurrectionBelowThreshold", c, 0)
            /\ AbortAll(c)
    /\ UNCHANGED <<clock, sibling_states, inflight, seen_max>>

registryVars == <<locks, rights, ret>>

SendHeartbeatStep == \E c \in Clones :
    SendHeartbeat(c) /\ UNCHANGED <<registryVars, ledgerVars, burstVars, waveVars, restVars>>
DeliverHeartbeatStep == \E h \in inflight :
    DeliverHeartbeat(h) /\ UNCHANGED <<locks, rights, ledgerVars, burstVars, waveVars, restVars>>
HeartbeatNowStep == \E c \in Clones :
    HeartbeatNow(c) /\ UNCHANGED <<locks, rights, ledgerVars, burstVars, waveVars, restVars>>
ClockStep == ClockAdvance /\ UNCHANGED <<registryVars, ledgerVars, burstVars, waveVars, restVars>>
MonitorStep == \E c \in Clones :
    monitor_siblings(c) /\ UNCHANGED <<registryVars, ledgerVars, burstVars, waveVars, restVars>>
ReconstructStep == \E c \in Clones, avail \in SUBSET Siblings :
    Reconstruct(c, avail) /\ UNCHANGED <<burstVars, waveVars, restVars>>

\* Liveness tracking: heartbeats that arrive at once, the clock, the monitor
\* and reconstruction.
NextMonitor ==
    \/ HeartbeatNowStep
    \/ ClockStep
    \/ MonitorStep
    \/ ReconstructStep

SpecMonitor == Init /\ [][NextMonitor]_vars

\* Reconstruction of silent clones that hold reservations in the pool.
NextReconstruct ==
    \/ ReserveStep
    \/ SettleRuinStep
    \/ ClockStep
    \/ MonitorStep
    \/ ReconstructStep

SpecReconstruct == Init /\ [][NextReconstruct]_vars

\* Heartbeats on their way, delivered in any order.
NextHeartbeat ==
    \/ SendHeartbeatStep
    \/ DeliverHeartbeatStep
    \/ ClockStep

SpecHeartbeat == Init /\ [][NextHeartbeat]_vars

\* ------------------------------------------------- temporal wave scheduler
\* "wave = clone_id % 10  # 10 waves"
WAVE_COUNT == 10
\* "base_delay = wave * 0.1  # 100ms between waves", in milliseconds
WAVE_INTERVAL == 100
\* "if urgency_score > 0.95", in hundredths
OVERRIDE_THRESHOLD == 95
\* "random.uniform(0, 0.05)", the upper end in milliseconds
JITTER_MAX == 50

\* clone ids 0..MaxCloneId; every JitterStep-th millisecond of the jitter range
MaxCloneId == 24
JitterStep == 10

CloneIds == 0..MaxCloneId
Urgencies == 0..100
Jitters == {j \in 0..JITTER_MAX : j % JitterStep = 0} \cup {JITTER_MAX}

OverridesWave_atleast(urgency_score) == urgency_score >= OVERRIDE_THRESHOLD

\* urgency_score > 0.95
OverridesWave(urgency_score) == urgency_score > OVERRIDE_THRESHOLD

BaseDelay_unit(clone_id) == (clone_id % WAVE_COUNT) * 10

\* wave = clone_id % 10; base_delay = wave * 0.1
BaseDelay(clone_id) == (clone_id % WAVE_COUNT) * WAVE_INTERVAL

\* TemporalWaveScheduler.schedule_transaction(clone_id, urgency_score), in
\* milliseconds; jitter is what random.uniform(0, 0.05) draws.
schedule_transaction(clone_id, urgency_score, jitter) ==
    IF OverridesWave(urgency_score)
    THEN 0
    ELSE BaseDelay(clone_id) + jitter

InitScheduler ==
    /\ InitCore
    /\ prop = NoPropagation
    /\ sched \in [clone_id : CloneIds, urgency_score : Urgencies, delay : {-1}]

ScheduleStep == \E jitter \in Jitters :
    /\ sched' = [sched EXCEPT !.delay =
                    schedule_transaction(sched.clone_id, sched.urgency_score, jitter)]
    /\ UNCHANGED <<registryVars, ledgerVars, burstVars, backupVars, prop, restVars>>

NextScheduler == ScheduleStep

SpecScheduler == InitScheduler /\ [][NextScheduler]_vars

\* --------------------------------------------------- knowledge propagation
\* "accuracy = 1.0 - (distance * 0.1)  # 10% degradation per hop", in hundredths
DECAY_PER_HOP == 10
\* "noise = random.uniform(-0.05, 0.05)", in hundredths
NOISE_MAX == 5

\* MAX_PROPAGATION_DISTANCE is not defined where it is used: any value up to
\* MaxPropagationDistance
MaxPropagationDistance == 12

Noises == (0 - NOISE_MAX)..NOISE_MAX

\* accuracy = 1.0 - (distance * 0.1)
RingAccuracy(distance) == 100 - distance * DECAY_PER_HOP

\* One turn of the loop of KnowledgePropagation.propagate_discovery:
\* for distance in range(1, MAX_PROPAGATION_DISTANCE) the ring at that
\* distance is sent the info with accuracy + noise.
propagate_discovery(noise) ==
    LET distance == prop.distance + 1 IN
    /\ distance < prop.max
    /\ prop' = [prop EXCEPT !.distance = distance,
                            !.accuracy = RingAccuracy(distance) + noise]

InitPropagate ==
    /\ InitCore
    /\ sched = NoSchedule
    /\ prop \in [max : 1..MaxPropagationDistance, distance : {0}, accuracy : {100}]

PropagateStep == \E noise \in Noises :
    /\ propagate_discovery(noise)
    /\ UNCHANGED <<registryVars, ledgerVars, burstVars, backupVars, sched, restVars>>

NextPropagate == PropagateStep

SpecPropagate == InitPropagate /\ [][NextPropagate]_vars

\* ------------------------------------------------ genome and its lineage
\* every operation on the genome is one tick of gen_clock, up to MaxGenomeOps
MaxGenomeOps == 3
\* the allowed set of a categorical parameter has NumVenues values
NumVenues == 2

coreVars == <<registryVars, ledgerVars, burstVars, backupVars, waveVars>>

ParamOrder == <<"response_delay", "schedule_offset", "preferred_venues">>
NumericParams == {"response_delay", "schedule_offset"}
Venues == 1..NumVenues
\* the ends and the middle of the +-20% uniform jitter, in percent
JitterPcts == {0 - 20, 0, 20}

\* a numeric parameter after a jitter of pct percent
Jittered(v, pct) == (v * (100 + pct)) \div 100

\* The lineage entries of one operation: one entry per parameter whose value
\* changed, in the order of the parameters.
RECURSIVE Changes(_, _, _, _)
Changes(old, new, ts, n) ==
    IF n = 0 THEN <<>>
    ELSE LET p == ParamOrder[n]
             rest == Changes(old, new, ts, n - 1)
         IN  IF old[p] # new[p]
             THEN Append(rest, [timestamp |-> ts, parameter |-> p,
                                old |-> old[p], new |-> new[p]])
             ELSE rest

Record_overwrite(old, new, ts) ==
    mutation_lineage' = Changes(old, new, ts, Len(ParamOrder))

\* "Every change is appended to mutation_lineage with a timestamp, old value,
\* and new value": the log grows at its end and nowhere else.
Record(old, new, ts) ==
    mutation_lineage' = mutation_lineage \o Changes(old, new, ts, Len(ParamOrder))

\* Spawn(parent_genome, generation): the child copies the parent's
\* parameters, every numeric one with a jitter and the categorical one
\* redrawn or kept, and every change is recorded.
Spawn(jitter, venue) ==
    LET child == [p \in DOMAIN genome.params |->
                    IF p \in NumericParams
                    THEN Jittered(genome.params[p], jitter[p])
                    ELSE venue]
    IN  /\ gen_clock < MaxGenomeOps
        /\ gen_clock' = gen_clock + 1
        /\ genome' = [generation |-> genome.generation + 1, params |-> child]
        /\ Record(genome.params, child, gen_clock + 1)

\* A mutation of one parameter of the genome while its clone trades.
Mutate(p, pct, venue) ==
    LET changed == [genome.params EXCEPT ![p] =
                        IF p \in NumericParams THEN Jittered(@, pct) ELSE venue]
    IN  /\ gen_clock < MaxGenomeOps
        /\ gen_clock' = gen_clock + 1
        /\ genome' = [genome EXCEPT !.params = changed]
        /\ Record(genome.params, changed, gen_clock + 1)

SpawnStep == \E jitter \in [NumericParams -> JitterPcts], venue \in Venues :
    Spawn(jitter, venue) /\ UNCHANGED <<coreVars, storeVars, authVars>>
MutateStep == \E n \in DOMAIN ParamOrder, pct \in JitterPcts, venue \in Venues :
    Mutate(ParamOrder[n], pct, venue) /\ UNCHANGED <<coreVars, storeVars, authVars>>

NextGenome ==
    \/ SpawnStep
    \/ MutateStep

SpecGenome == Init /\ [][NextGenome]_vars

\* ------------------------------------------------ the trading store
MAX_TRADES == 100
MAX_ALERTS == 50
MAX_PERFORMANCE_HISTORY == 1440

\* every call on the store is one tick of store_clock, up to MaxStoreCalls
MaxStoreCalls == 3
NumStoreClones == 2
NumPositions == 2
\* ids of the trades, alerts and performance samples that arrive
NumFreshIds == 2


CloneMetricsSet == [id : (1..NumStoreClones), status : {"active", "idle"}]
PositionSet == [id : (1..NumPositions), cloneId : (1..NumStoreClones)]
TradeSet == [id : (1..NumFreshIds)]
MEVOpportunitySet == [id : {1}, status : {"pending", "completed"}]
MarketDataSet == [symbol : {"BTC"}, price : {1, 2}]
SwarmStatsSet == [generation : {1, 2}]
AlertSet == [id : [kind : {"alert"}, n : (1..NumFreshIds)], type : {"info"}, title : {"Alert"}]
PerformanceSet == [timestamp : (1..NumFreshIds)]
ConnectionStates == [status : {"connected", "disconnected"}, reconnectAttempts : {0, 1}]

\* The lists of a store that has been running: n entries received before the
\* ones that arrive now, the trades and alerts newest first, the samples
\* oldest first.
EarlierTrades(n) == [k \in 1..n |-> [id |-> NumFreshIds + k]]
EarlierAlerts(n) == [k \in 1..n |-> [id |-> [kind |-> "alert", n |-> NumFreshIds + k],
                                     type |-> "info", title |-> "Alert"]]
EarlierPerformance(n) == [k \in 1..n |-> [timestamp |-> NumFreshIds + k]]

\* Array.prototype.slice(0, n) and slice(-n)
SliceFirst(arr, n) == SubSeq(arr, 1, IF Len(arr) < n THEN Len(arr) ELSE n)
SliceLast_head(arr, n) == SubSeq(arr, 1, IF Len(arr) < n THEN Len(arr) ELSE n)
SliceLast(arr, n) == SubSeq(arr, IF Len(arr) < n THEN 1 ELSE Len(arr) - n + 1, Len(arr))
\* Array.prototype.filter
RECURSIVE Filter(_, _)
Filter(arr, alertId) ==
    IF arr = <<>> THEN <<>>
    ELSE IF Head(arr).id # alertId
         THEN <<Head(arr)>> \o Filter(Tail(arr), alertId)
         ELSE Filter(Tail(arr), alertId)

\* Map.prototype.set and Map.prototype.delete
MapSet(map, key, value) == {e \in map : e.id # key} \cup {value}
MapDelete(map, key) == {e \in map : e.id # key}

setConnectionState(state) == store' = [store EXCEPT !.connectionState = state]

updateSwarmStats(stats) == store' = [store EXCEPT !.swarmStats = {stats}]

updateClone(clone) == store' = [store EXCEPT !.clones = MapSet(@, clone.id, clone)]

removeClone_keep(cloneId) ==
    store' = [store EXCEPT !.clones = MapDelete(@, cloneId)]

removeClone(cloneId) ==
    store' = [store EXCEPT !.clones = MapDelete(@, cloneId),
                           !.positions = {position \in @ : position.cloneId # cloneId}]

updatePosition(position) ==
    store' = [store EXCEPT !.positions = MapSet(@, position.id, position)]

removePosition(positionId) ==
    store' = [store EXCEPT !.positions = MapDelete(@, positionId)]

addTrade_uncapped(trade) ==
    store' = [store EXCEPT !.recentTrades = <<trade>> \o @]

addTrade(trade) ==
    store' = [store EXCEPT !.recentTrades = SliceFirst(<<trade>> \o @, MAX_TRADES)]

updateMEVOpportunity(opportunity) ==
    store' = [store EXCEPT !.mevOpportunities = MapSet(@, opportunity.id, opportunity)]

removeMEVOpportunity(opportunityId) ==
    store' = [store EXCEPT !.mevOpportunities = MapDelete(@, opportunityId)]

updateMarketData(data) ==
    store' = [store EXCEPT !.marketData =
                  {e \in @ : e.symbol # data.symbol} \cup {data}]

addAlert(alert) ==
    store' = [store EXCEPT !.alerts = SliceFirst(<<alert>> \o @, MAX_ALERTS)]

dismissAlert(alertId) ==
    store' = [store EXCEPT !.alerts = Filter(@, alertId)]

addPerformanceData(data) ==
    store' = [store EXCEPT !.performanceHistory =
                  SliceLast(Append(@, data), MAX_PERFORMANCE_HISTORY)]

\* the alerts that handleWSMessage builds itself, at Date.now() = now
SpawnAlert(now) == [id |-> [kind |-> "spawn", n |-> now], type |-> "success",
                    title |-> "Clone Spawned"]
ErrorAlert(now) == [id |-> [kind |-> "error", n |-> now], type |-> "error",
                    title |-> "System Error"]

MessageTypes == {"clone_update", "new_trade", "position_update", "mev_opportunity",
                 "market_update", "swarm_stats", "alert", "performance_update",
                 "clone_spawned", "error"}
\* the data a message of each type carries
MessageData(type) ==
    CASE type = "clone_update" -> CloneMetricsSet
      [] type = "new_trade" -> TradeSet
      [] type = "position_update" -> PositionSet
      [] type = "mev_opportunity" -> MEVOpportunitySet
      [] type = "market_update" -> MarketDataSet
      [] type = "swarm_stats" -> SwarmStatsSet
      [] type = "alert" -> AlertSet
      [] type = "performance_update" -> PerformanceSet
      [] type = "clone_spawned" -> [parentId : {1}, childId : {2}, generation : {1}]
      [] type = "error" -> [message : {"failed"}, code : {"E1"}]

handleWSMessage_reconnect(message) ==
    CASE message.type = "clone_update" -> updateClone(message.data)
      [] message.type = "new_trade" -> addTrade(message.data)
      [] message.type = "position_update" -> updatePosition(message.data)
      [] message.type = "mev_opportunity" -> updateMEVOpportunity(message.data)
      [] message.type = "market_update" -> updateMarketData(message.data)
      [] message.type = "swarm_stats" -> updateSwarmStats(message.data)
      [] message.type = "alert" -> addAlert(message.data)
      [] message.type = "performance_update" -> addPerformanceData(message.data)
      [] message.type = "clone_spawned" -> addAlert(SpawnAlert(store_clock))
      [] message.type = "error" ->
            store' = [store EXCEPT
                         !.alerts = SliceFirst(<<ErrorAlert(store_clock)>> \o @, MAX_ALERTS),
                         !.connectionState = [@ EXCEPT !.status = "error"]]
      [] OTHER -> UNCHANGED store

handleWSMessage(message) ==
    CASE message.type = "clone_update" -> updateClone(message.data)
      [] message.type = "new_trade" -> addTrade(message.data)
      [] message.type = "position_update" -> updatePosition(message.data)
      [] message.type = "mev_opportunity" -> updateMEVOpportunity(message.data)
      [] message.type = "market_update" -> updateMarketData(message.data)
      [] message.type = "swarm_stats" -> updateSwarmStats(message.data)
      [] message.type = "alert" -> addAlert(message.data)
      [] message.type = "performance_update" -> addPerformanceData(message.data)
      [] message.type = "clone_spawned" -> addAlert(SpawnAlert(store_clock))
      [] message.type = "error" -> addAlert(ErrorAlert(store_clock))
      [] OTHER -> UNCHANGED store

reset == store' = InitialState

\* one call on the store: the clock ticks and the call is noted
Called(op, type, id) ==
    /\ store_clock < MaxStoreCalls
    /\ store_clock' = store_clock + 1
    /\ store_call' = [op |-> op, type |-> type, id |-> id]
    /\ UNCHANGED <<coreVars, genomeVars, authVars>>

\* A store that has been running: every clone is known and has a position,
\* and the lists are one short of their caps.
RunningState ==
    [InitialState EXCEPT
        !.clones = {[id |-> c, status |-> "active"] : c \in (1..NumStoreClones)},
        !.positions = {[id |-> k, cloneId |-> ((k - 1) % NumStoreClones) + 1] :
                          k \in (1..NumPositions)},
        !.recentTrades = EarlierTrades(MAX_TRADES - 1),
        !.alerts = EarlierAlerts(MAX_ALERTS - 1),
        !.performanceHistory = EarlierPerformance(MAX_PERFORMANCE_HISTORY - 1)]

\* The store when the calls begin: as created, or running.
InitStore ==
    /\ IdleCore
    /\ IdleAuth
    /\ sched = NoSchedule
    /\ prop = NoPropagation
    /\ store_clock = 0
    /\ store_call = NoCall
    /\ store \in {InitialState, RunningState}

NextStore ==
    \/ \E state \in ConnectionStates :
          /\ setConnectionState(state)
          /\ Called("setConnectionState", "", 0)
    \/ \E stats \in SwarmStatsSet :
          /\ updateSwarmStats(stats)
          /\ Called("updateSwarmStats", "", 0)
    \/ \E clone \in CloneMetricsSet :
          /\ updateClone(clone)
          /\ Called("updateClone", "", clone.id)
    \/ \E cloneId \in (1..NumStoreClones) :
          /\ removeClone(cloneId)
          /\ Called("removeClone", "", cloneId)
    \/ \E position \in PositionSet :
          /\ updatePosition(position)
          /\ Called("updatePosition", "", position.id)
    \/ \E positionId \in (1..NumPositions) :
          /\ removePosition(positionId)
          /\ Called("removePosition", "", positionId)
    \/ \E trade \in TradeSet :
          /\ addTrade(trade)
          /\ Called("addTrade", "", trade.id)
    \/ \E opportunity \in MEVOpportunitySet :
          /\ updateMEVOpportunity(opportunity)
          /\ Called("updateMEVOpportunity", "", opportunity.id)
    \/ \E opportunityId \in {1} :
          /\ removeMEVOpportunity(opportunityId)
          /\ Called("removeMEVOpportunity", "", opportunityId)
    \/ \E data \in MarketDataSet :
          /\ updateMarketData(data)
          /\ Called("updateMarketData", "", data.price)
    \/ \E alert \in AlertSet :
          /\ addAlert(alert)
          /\ Called("addAlert", "", alert.id.n)
    \/ \E alertId \in [kind : {"alert"}, n : 1..(NumFreshIds + 1)] :
          /\ dismissAlert(alertId)
          /\ Called("dismissAlert", "", alertId.n)
    \/ \E data \in PerformanceSet :
          /\ addPerformanceData(data)
          /\ Called("addPerformanceData", "", data.timestamp)
    \/ \E type \in MessageTypes : \E data \in MessageData(type) :
          /\ handleWSMessage([type |-> type, data |-> data])
          /\ Called("handleWSMessage", type, 0)
    \/ /\ reset
       /\ Called("reset", "", 0)

SpecStore == InitStore /\ [][NextStore]_vars

\* ------------------------------------------------ AuthManager
NumTokens == 2
NumRefreshTokens == 1
\* auth_clock runs from 0 to MaxAuthClock seconds
MaxAuthClock == 3
\* the longest lifetime the refresh endpoint grants, in seconds
MaxExpiresIn == 2

Tokens == 1..NumTokens
RefreshTokens == 1..NumRefreshTokens
ExpiresIn == {0, MaxExpiresIn}
\* Date.now(), in milliseconds
DateNow == auth_clock * 1000

\* Number.prototype.toString and parseInt(_, 10) on the decimal digits
RECURSIVE toString(_)
toString(n) == IF n < 10 THEN <<n>> ELSE Append(toString(n \div 10), n % 10)
RECURSIVE ParseInt(_)
ParseInt(str) ==
    IF Len(str) = 1 THEN str[1]
    ELSE ParseInt(SubSeq(str, 1, Len(str) - 1)) * 10 + str[Len(str)]

\* the AuthToken values saveToken is called with; token may be the empty
\* string, which reads back like a missing key (NoToken)
AuthTokens == [token : {NoToken} \cup Tokens, expiresAt : {t * 1000 : t \in 1..MaxExpiresIn},
               refreshToken : {NoToken} \cup RefreshTokens]
\* what the refresh endpoint answers: response.ok and the body
Responses == [ok : BOOLEAN, access_token : Tokens, expires_in : ExpiresIn,
              refresh_token : {NoToken} \cup RefreshTokens]

saveToken(ls, authData) ==
    [authToken |-> authData.token,
     tokenExpiry |-> toString(authData.expiresAt),
     refreshToken |-> IF authData.refreshToken # NoToken
                      THEN authData.refreshToken ELSE ls.refreshToken]

clearToken(ls) ==
    [ls EXCEPT !.authToken = NoToken, !.refreshToken = NoToken, !.tokenExpiry = <<>>]

\* getToken: the token it returns and the storage it leaves
getToken_noexpiry(ls, now) ==
    IF ls.authToken = NoToken \/ ls.tokenExpiry = <<>>
    THEN [token |-> NoToken, storage |-> ls]
    ELSE [token |-> ls.authToken, storage |-> ls]

getToken(ls, now) ==
    IF ls.authToken = NoToken \/ ls.tokenExpiry = <<>>
    THEN [token |-> NoToken, storage |-> ls]
    ELSE IF now > ParseInt(ls.tokenExpiry)
         THEN [token |-> NoToken, storage |-> clearToken(ls)]
         ELSE [token |-> ls.authToken, storage |-> ls]

getRefreshToken(ls) == ls.refreshToken

\* refreshAuthToken after its fetch has been answered: whether it refreshed,
\* and the storage it leaves.  Before the fetch it has read refreshToken.
refreshAuthToken_keep(ls, refreshToken, response, now) ==
    IF ~response.ok
    THEN [refreshed |-> FALSE, storage |-> ls]
    ELSE [refreshed |-> TRUE,
          storage |-> saveToken(ls,
              [token |-> response.access_token,
               expiresAt |-> now + response.expires_in * 1000,
               refreshToken |-> IF response.refresh_token # NoToken
                                THEN response.refresh_token ELSE refreshToken])]

refreshAuthToken(ls, refreshToken, response, now) ==
    IF ~response.ok
    THEN [refreshed |-> FALSE, storage |-> clearToken(ls)]
    ELSE [refreshed |-> TRUE,
          storage |-> saveToken(ls,
              [token |-> response.access_token,
               expiresAt |-> now + response.expires_in * 1000,
               refreshToken |-> IF response.refresh_token # NoToken
                                THEN response.refresh_token ELSE refreshToken])]

\* ensureValidToken up to the fetch of refreshAuthToken: the token it has, the
\* storage it leaves, and whether it goes on to ask the refresh endpoint.
ensureValidToken(ls, now) ==
    LET got == getToken(ls, now)
        refreshToken == getRefreshToken(got.storage)
    IN  IF got.token # NoToken
        THEN [token |-> got.token, storage |-> got.storage, fetch |-> FALSE,
              refreshToken |-> NoToken, refreshed |-> "none"]
        ELSE IF refreshToken = NoToken
             THEN [token |-> NoToken, storage |-> got.storage, fetch |-> FALSE,
                   refreshToken |-> NoToken, refreshed |-> "no_refresh_token"]
             ELSE [token |-> NoToken, storage |-> got.storage, fetch |-> TRUE,
                   refreshToken |-> refreshToken, refreshed |-> "pending"]

\* ensureValidToken from the answer of the refresh endpoint on
ensureValidTokenResumed(ls, refreshToken, response, now) ==
    LET r == refreshAuthToken(ls, refreshToken, response, now)
        got == getToken(r.storage, now)
    IN  IF r.refreshed
        THEN [token |-> got.token, storage |-> got.storage, refreshed |-> "ok"]
        ELSE [token |-> NoToken, storage |-> r.storage, refreshed |-> "failed"]

AuthFrame == UNCHANGED <<coreVars, genomeVars, storeVars>>

SaveTokenStep == \E authData \in AuthTokens :
    /\ localStorage' = saveToken(localStorage, authData)
    /\ auth_ret' = [op |-> "saveToken", token |-> authData.token, refreshed |-> "none"]
    /\ UNCHANGED <<auth_clock, ensure, request>>
    /\ AuthFrame

GetTokenStep ==
    LET got == getToken(localStorage, DateNow)
    IN  /\ localStorage' = got.storage
        /\ auth_ret' = [op |-> "getToken", token |-> got.token,
                        refreshed |-> IF got.storage = localStorage THEN "none"
                                      ELSE "expired"]
        /\ UNCHANGED <<auth_clock, ensure, request>>
        /\ AuthFrame

ClearTokenStep ==
    /\ localStorage' = clearToken(localStorage)
    /\ auth_ret' = [op |-> "clearToken", token |-> NoToken, refreshed |-> "none"]
    /\ UNCHANGED <<auth_clock, ensure, request>>
    /\ AuthFrame

\* isAuthenticated: true (a token in auth_ret) or false (NoToken)
IsAuthenticatedStep ==
    LET got == getToken(localStorage, DateNow)
    IN  /\ localStorage' = got.storage
        /\ auth_ret' = [op |-> "isAuthenticated", token |-> got.token,
                        refreshed |-> IF got.storage = localStorage THEN "none"
                                      ELSE "expired"]
        /\ UNCHANGED <<auth_clock, ensure, request>>
        /\ AuthFrame

EnsureValidTokenStep ==
    LET e == ensureValidToken(localStorage, DateNow)
    IN  /\ ensure.pc = "idle"
        /\ localStorage' = e.storage
        /\ auth_ret' = [op |-> "ensureValidToken", token |-> e.token,
                        refreshed |-> e.refreshed]
        /\ ensure' = IF e.fetch THEN [pc |-> "fetch", refreshToken |-> e.refreshToken]
                     ELSE NoEnsure
        /\ UNCHANGED <<auth_clock, request>>
        /\ AuthFrame

EnsureAnswered(response) ==
    LET e == ensureValidTokenResumed(localStorage, ensure.refreshToken, response, DateNow)
    IN  /\ ensure.pc = "fetch"
        /\ localStorage' = e.storage
        /\ auth_ret' = [op |-> "ensureValidToken", token |-> e.token,
                        refreshed |-> e.refreshed]
        /\ ensure' = NoEnsure
        /\ UNCHANGED <<auth_clock, request>>
        /\ AuthFrame

EnsureAnsweredStep == \E response \in Responses : EnsureAnswered(response)

AuthClockStep ==
    /\ auth_clock < MaxAuthClock
    /\ auth_clock' = auth_clock + 1
    /\ UNCHANGED <<localStorage, auth_ret, ensure, request>>
    /\ AuthFrame

NextAuth ==
    \/ SaveTokenStep
    \/ GetTokenStep
    \/ ClearTokenStep
    \/ IsAuthenticatedStep
    \/ EnsureValidTokenStep
    \/ EnsureAnsweredStep
    \/ AuthClockStep

SpecAuth == Init /\ [][NextAuth]_vars

\* ------------------------------------------------ setupAuthInterceptor
\* The request interceptor: ensureValidToken, then the Authorization header
\* if there is a token, then the request goes out.
Intercepted(req, e) ==
    IF e.fetch
    THEN [req EXCEPT !.pc = "request_fetch"]
    ELSE [req EXCEPT !.pc = "sent",
                     !.Authorization = IF e.token # NoToken THEN e.token ELSE @,
                     !.sends = @ + 1]

RequestStep ==
    LET e == ensureValidToken(localStorage, DateNow)
    IN  /\ request.pc = "idle"
        /\ localStorage' = e.storage
        /\ request' = Intercepted(request, e)
        /\ ensure' = IF e.fetch THEN [pc |-> "request", refreshToken |-> e.refreshToken]
                     ELSE ensure
        /\ auth_ret' = [op |-> "request", token |-> e.token, refreshed |-> e.refreshed]
        /\ UNCHANGED auth_clock
        /\ AuthFrame

\* the refresh endpoint answers the refresh begun in the request interceptor
RequestRefreshedStep == \E response \in Responses :
    LET e == ensureValidTokenResumed(localStorage, ensure.refreshToken, response, DateNow)
    IN  /\ request.pc = "request_fetch"
        /\ localStorage' = e.storage
        /\ request' = [request EXCEPT
                          !.pc = "sent",
                          !.Authorization = IF e.token # NoToken THEN e.token ELSE @,
                          !.sends = @ + 1]
        /\ ensure' = NoEnsure
        /\ auth_ret' = [op |-> "request", token |-> e.token, refreshed |-> e.refreshed]
        /\ UNCHANGED auth_clock
        /\ AuthFrame

\* The server answers the request: the response interceptor passes a
\* response on, and on an error looks at 401 and _retry.
AnsweredStep_again(httpStatus) ==
    /\ request.pc = "sent"
    /\ IF httpStatus = 200
       THEN /\ request' = [request EXCEPT !.pc = "resolved"]
            /\ auth_ret' = [op |-> "response", token |-> NoToken, refreshed |-> "none"]
            /\ UNCHANGED ensure
       ELSE IF httpStatus = 401
       THEN IF getRefreshToken(localStorage) = NoToken
            THEN /\ request' = [request EXCEPT !.pc = "rejected", !.retry = TRUE,
                                               !.refreshes = @ + 1]
                 /\ auth_ret' = [op |-> "response", token |-> NoToken,
                                 refreshed |-> "no_refresh_token"]
                 /\ UNCHANGED ensure
            ELSE /\ request' = [request EXCEPT !.pc = "response_fetch", !.retry = TRUE,
                                               !.refreshes = @ + 1]
                 /\ auth_ret' = [op |-> "response", token |-> NoToken,
                                 refreshed |-> "pending"]
                 /\ ensure' = [pc |-> "response",
                               refreshToken |-> getRefreshToken(localStorage)]
       ELSE /\ request' = [request EXCEPT !.pc = "rejected"]
            /\ auth_ret' = [op |-> "response", token |-> NoToken, refreshed |-> "none"]
            /\ UNCHANGED ensure
    /\ UNCHANGED <<localStorage, auth_clock>>
    /\ AuthFrame

AnsweredStep(httpStatus) ==
    /\ request.pc = "sent"
    /\ IF httpStatus = 200
       THEN /\ request' = [request EXCEPT !.pc = "resolved"]
            /\ auth_ret' = [op |-> "response", token |-> NoToken, refreshed |-> "none"]
            /\ UNCHANGED ensure
       ELSE IF httpStatus = 401 /\ ~request.retry
       THEN IF getRefreshToken(localStorage) = NoToken
            THEN /\ request' = [request EXCEPT !.pc = "rejected", !.retry = TRUE,
                                               !.refreshes = @ + 1]
                 /\ auth_ret' = [op |-> "response", token |-> NoToken,
                                 refreshed |-> "no_refresh_token"]
                 /\ UNCHANGED ensure
            ELSE /\ request' = [request EXCEPT !.pc = "response_fetch", !.retry = TRUE,
                                               !.refreshes = @ + 1]
                 /\ auth_ret' = [op |-> "response", token |-> NoToken,
                                 refreshed |-> "pending"]
                 /\ ensure' = [pc |-> "response",
                               refreshToken |-> getRefreshToken(localStorage)]
       ELSE /\ request' = [request EXCEPT !.pc = "rejected"]
            /\ auth_ret' = [op |-> "response", token |-> NoToken, refreshed |-> "none"]
            /\ UNCHANGED ensure
    /\ UNCHANGED <<localStorage, auth_clock>>
    /\ AuthFrame

\* The refresh endpoint answers the refresh begun in the response
\* interceptor: on success the request is sent again through the instance,
\* request interceptor included; otherwise the error is rejected.
ResponseRefreshed(response) ==
    LET r == refreshAuthToken(localStorage, ensure.refreshToken, response, DateNow)
        got == getToken(r.storage, DateNow)
        e == ensureValidToken(got.storage, DateNow)
    IN  /\ request.pc = "response_fetch"
        /\ IF r.refreshed
           THEN /\ localStorage' = e.storage
                /\ request' = Intercepted([request EXCEPT !.Authorization = got.token], e)
                /\ ensure' = IF e.fetch
                             THEN [pc |-> "request", refreshToken |-> e.refreshToken]
                             ELSE NoEnsure
                /\ auth_ret' = [op |-> "response", token |-> got.token, refreshed |-> "ok"]
           ELSE /\ localStorage' = r.storage
                /\ request' = [request EXCEPT !.pc = "rejected"]
                /\ ensure' = NoEnsure
                /\ auth_ret' = [op |-> "response", token |-> NoToken, refreshed |-> "failed"]
        /\ UNCHANGED auth_clock
        /\ AuthFrame

ResponseRefreshedStep == \E response \in Responses : ResponseRefreshed(response)

ServerAnswersStep == \E httpStatus \in {200, 401, 500} : AnsweredStep(httpStatus)

\* a request starts with the tokens of an earlier login in localStorage, or
\* with none
InitInterceptor ==
    /\ IdleCore
    /\ IdleStore
    /\ sched = NoSchedule
    /\ prop = NoPropagation
    /\ auth_clock = 0
    /\ auth_ret = NoAuthCall
    /\ ensure = NoEnsure
    /\ request = NoRequest
    /\ localStorage \in {EmptyStorage} \cup
                        {saveToken(EmptyStorage, authData) : authData \in AuthTokens}

NextInterceptor ==
    \/ RequestStep
    \/ RequestRefreshedStep
    \/ ServerAnswersStep
    \/ ResponseRefreshedStep
    \/ AuthClockStep

SpecInterceptor == InitInterceptor /\ [][NextInterceptor]_vars

\* the server and the refresh endpoint answer what they are asked
SpecInterceptorFair ==
    /\ SpecInterceptor
    /\ WF_vars(RequestStep)
    /\ WF_vars(RequestRefreshedStep)
    /\ WF_vars(ServerAnswersStep)
    /\ WF_vars(ResponseRefreshedStep)

\* ================================================================ claims

\* C1  Mutual exclusion: for every fingerprint at most one clone holds live
\* rights on it, and the live lock names exactly that clone as its holder,
\* after any interleaving of claim, Release, Abort, the pool calls and ticks.
C1_MutualExclusion ==
    \A f \in Fingerprints :
        /\ Cardinality({c \in Clones : HasRights(c, f)}) <= 1
        /\ \A c \in Clones : HasRights(c, f) =>
                locks[f].holder = c /\ locks[f].ttl > 0
        /\ locks[f].holder \in Clones \cup {NoClone}

\* A clone has held its lock for some seconds across an Abort of another
\* clone's reservation on the same fingerprint.
C1_Witness ==
    /\ ret.op = "Abort" /\ ret.ok
    /\ \E f \in Fingerprints, c \in Clones :
          /\ HasRights(c, f) /\ rights[c][f] > 0
          /\ \E i \in DOMAIN reservations :
                /\ reservations[i].fp = f
                /\ reservations[i].clone # c
                /\ reservations[i].state = "released"

\* C2  Of N >= 2 simultaneous callers for a fingerprint without a live lock,
\* exactly one is granted and every other one is denied: as soon as one call
\* of the burst is served there is exactly one grant, never zero, never two.
C2_ExactlyOneGranted ==
    LET served == {c \in Clones : reply[c] # "none"}
        granted == {c \in Clones : reply[c] = "Granted"}
    IN  /\ served # {} => Cardinality(granted) = 1
        /\ \A c \in served \ granted : reply[c] = "Denied"
        /\ (burst.fp # 0 /\ burst.waiting = {}) => Cardinality(served) >= 2

C2_Witness ==
    /\ burst.fp # 0 /\ burst.waiting = {}
    /\ \E c1, c2 \in Clones :
          c1 # c2 /\ reply[c1] = "Granted" /\ reply[c2] = "Denied"

C4_DeniedNamesHolder ==
    [][\A f \in Fingerprints, c \in Clones :
          (claim_opportunity(f, c) /\ ~ret'.ok)
          => (ret'.holder_id = LiveHolder(f) /\ locks' = locks)]_vars

\* C4 (amended)  A claim_opportunity that is not granted returns a bare False
\* that names no holder; it happens only while the key is live, and it leaves
\* the entry of that fingerprint and of every other fingerprint unchanged.
C4_DeniedBareFalse ==
    [][\A f \in Fingerprints, c \in Clones :
          (claim_opportunity(f, c) /\ ~ret'.ok)
          => (/\ ret'.holder_id = NoClone
              /\ locks[f].holder # NoClone /\ locks[f].ttl > 0
              /\ locks' = locks)]_vars

C4_Witness ==
    /\ ret.op = "claim_opportunity" /\ ~ret.ok
    /\ locks[ret.fp].holder \notin {NoClone, ret.clone}
    /\ locks[ret.fp].ttl > 0

\* C5 (as stated)  A claim by the clone that holds the live lock is granted,
\* keeps the holder and refreshes the time to live.
C5_ReclaimRefreshes ==
    [][\A f \in Fingerprints, c \in Clones :
          (/\ locks[f].holder = c /\ locks[f].ttl > 0
           /\ claim_opportunity(f, c))
          => (/\ ret'.ok
              /\ locks'[f] = [holder |-> c, ttl |-> LOCK_EX])]_vars

\* C6  Release(f, c) deletes the lock of f only when c is its live holder;
\* called by any other clone, or for a fingerprint without a live lock, it
\* leaves the whole lock table unchanged.
C6_ReleaseOnlyByHolder ==
    [][\A f \in Fingerprints, c \in Clones :
          Release(f, c)
          => IF locks[f].holder = c /\ locks[f].ttl > 0
             THEN locks' = [locks EXCEPT ![f] = NoLock]
             ELSE locks' = locks]_vars

\* A clone that is not the holder has just called Release on a fingerprint
\* another clone claimed some seconds ago, and that lock is still in place.
C6_Witness ==
    /\ ret.op = "Release"
    /\ locks[ret.fp].holder \notin {NoClone, ret.clone}
    /\ locks[ret.fp].ttl > 0
    /\ locks[ret.fp].ttl < LOCK_EX

\* C7  committed <= total_balance in every reachable state of the ledger,
\* also after Settle calls with a negative realized_pnl.
C7_CommittedWithinBalance == committed <= total_balance

\* A loss was settled while another reservation is still held.
C7_Witness ==
    /\ ret.op = "Settle" /\ ret.ok
    /\ pnl_sum < 0
    /\ committed > 0

\* C8  Conservation: total_balance is the initial balance plus the realized
\* pnl of all successful Settle calls; requestCapital, Abort and every denied
\* or failed call leave it unchanged.
C8_Conservation ==
    /\ total_balance = InitialBalance + pnl_sum
    /\ total_balance >= 0

\* A reservation was aborted after another one was settled with a pnl.
C8_Witness ==
    /\ ret.op = "Abort" /\ ret.ok
    /\ pnl_sum # 0
    /\ \E i \in DOMAIN reservations : reservations[i].state = "committed"

\* C9 (as stated)  A Reserve by a clone that does not hold the live lock of
\* the fingerprint is denied with NoClaim and changes nothing.
C9_NoClaimDenied ==
    [][\A c \in Clones, f \in Fingerprints, a \in Amounts :
          (/\ ~(locks[f].holder = c /\ locks[f].ttl > 0)
           /\ requestCapital(c, a, f))
          => (/\ ~ret'.ok /\ ret'.err = "NoClaim"
              /\ UNCHANGED <<total_balance, committed, reservations>>)]_vars

\* C9 (amended)  requestCapital is denied with "Already claimed" whenever the
\* opportunity's flag in opportunityLocks is set; a reservation is created
\* only for an opportunity whose flag was not set, and the call sets it; a
\* denied call leaves the balance, committed, the reservation table and the
\* flags unchanged.  Whether the caller holds the claim lock plays no part.
C9_AlreadyClaimedDenied ==
    [][\A c \in Clones, f \in Fingerprints, a \in Amounts :
          requestCapital(c, a, f)
          => /\ opportunityLocks[f] => (~ret'.ok /\ ret'.err = "Already claimed")
             /\ ret'.ok => (/\ ~opportunityLocks[f]
                            /\ opportunityLocks' = [opportunityLocks EXCEPT ![f] = TRUE]
                            /\ Len(reservations') = Len(reservations) + 1)
             /\ ~ret'.ok => UNCHANGED <<total_balance, committed, reservations,
                                        opportunityLocks>>]_vars

\* The newest reservation was just created for a clone while another clone
\* holds the live lock of its fingerprint.
C9_Witness ==
    /\ ret.op = "requestCapital" /\ ret.ok
    /\ reservations # <<>>
    /\ LET r == reservations[Len(reservations)] IN
          /\ r.state = "held"
          /\ locks[r.fp].holder \notin {NoClone, r.clone}
          /\ locks[r.fp].ttl > 0

\* C10 (as stated)  A Reserve by the live lock holder is denied with
\* InsufficientBalance exactly when amount > total_balance - committed.
C10_InsufficientIffOver ==
    [][\A c \in Clones, f \in Fingerprints, a \in Amounts :
          (/\ locks[f].holder = c /\ locks[f].ttl > 0
           /\ requestCapital(c, a, f))
          => ((~ret'.ok /\ ret'.err = "Insufficient pool")
                <=> a > total_balance - committed)]_vars

\* C10 (amended)  A Reserve for an opportunity whose flag is not set is denied
\* with "Insufficient pool" exactly when amount > total_balance - committed;
\* an amount equal to the available balance is accepted; on success committed
\* grows by exactly amount, total_balance is unchanged and one reservation in
\* state held is appended.
C10_InsufficientIffOverUnclaimed ==
    [][\A c \in Clones, f \in Fingerprints, a \in Amounts :
          (~opportunityLocks[f] /\ requestCapital(c, a, f))
          => /\ (~ret'.ok /\ ret'.err = "Insufficient pool")
                    <=> a > total_balance - committed
             /\ a <= total_balance - committed
                    => /\ ret'.ok
                       /\ committed' = committed + a
                       /\ total_balance' = total_balance
                       /\ reservations' = Append(reservations,
                            [clone |-> c, fp |-> f, amount |-> a, state |-> "held"])]_vars

\* The live lock holder reserved exactly what was available.
C10_Witness ==
    /\ ret.op = "requestCapital" /\ ret.ok
    /\ committed = total_balance
    /\ reservations # <<>>
    /\ LET r == reservations[Len(reservations)] IN
          /\ r.state = "held"
          /\ locks[r.fp].holder = r.clone
          /\ locks[r.fp].ttl > 0

C13_LifecycleForward ==
    [][/\ \A i \in DOMAIN reservations :
            /\ i \in DOMAIN reservations'
            /\ reservations'[i].clone = reservations[i].clone
            /\ reservations'[i].fp = reservations[i].fp
            /\ reservations'[i].amount = reservations[i].amount
            /\ reservations[i].state = "held" =>
                    reservations'[i].state \in {"held", "committed", "released"}
            /\ reservations[i].state # "held" =>
                    reservations'[i].state = reservations[i].state
       /\ \A i \in DOMAIN reservations' \ DOMAIN reservations :
            reservations'[i].state = "held"
       /\ \A id \in ReservationIds, p \in PnLs :
            (~IsHeld(id) /\ Settle(id, p)) =>
                /\ ~ret'.ok /\ ret'.err = "ReservationConflict"
                /\ UNCHANGED <<total_balance, committed, reservations>>
       /\ \A id \in ReservationIds :
            (~IsHeld(id) /\ Abort(id)) =>
                /\ ~ret'.ok /\ ret'.err = "ReservationConflict"
                /\ UNCHANGED <<total_balance, committed, reservations>>]_vars

\* An Abort was answered with ReservationConflict when one reservation had
\* been settled and another one aborted before: whichever id it named, its
\* amount had already left committed.
C13_Witness ==
    /\ ret.op = "Abort" /\ ret.err = "ReservationConflict"
    /\ Len(reservations) = 2
    /\ \E i, j \in DOMAIN reservations :
            reservations[i].state = "committed" /\ reservations[j].state = "released"
    /\ committed = 0

\* C14  In every reachable state of the ledger committed equals the sum of
\* the amounts of all reservations in state held, after any sequence of
\* requestCapital, Settle and Abort calls by any clones.
C14_CommittedIsHeldSum == committed = LiveReservations

\* Two clones have reserved; one reservation is still held and the other one
\* left committed through Settle or Abort.
C14_Witness ==
    /\ Len(reservations) = 2
    /\ reservations[1].clone # reservations[2].clone
    /\ \E i, j \in DOMAIN reservations :
            reservations[i].state = "held" /\ reservations[j].state # "held"
    /\ committed > 0

\* C15  A Settle that would leave committed > total_balance
\* writes neither value and halts the pool, and on a halted pool every
\* requestCapital, Settle and Abort is rejected: the pool stays halted and
\* total_balance, committed and all reservations stay as they are.
C15_HaltedRejectsAll ==
    [][/\ \A id \in ReservationIds, p \in PnLs \cup {0 - (InitialBalance + 1)} :
            (/\ IsHeld(id) /\ ~halted
             /\ committed - reservations[id].amount > total_balance + p
             /\ Settle(id, p)) =>
                /\ halted' /\ ~ret'.ok
                /\ UNCHANGED <<total_balance, committed, reservations>>
       /\ halted =>
            /\ halted'
            /\ ~ret'.ok
            /\ UNCHANGED <<total_balance, committed, reservations>>]_vars

\* C16 (as stated)  A clone leaves active only for suspected and only when
\* it has missed k = 3 heartbeat intervals; it leaves suspected only for
\* active or retired; a retired clone never changes state.
C16_SuspectedAfterKMissed ==
    [][\A c \in Clones :
        /\ (status[c] = "active" /\ status'[c] # "active") =>
                /\ status'[c] = "suspected"
                /\ (clock - sibling_states[c]) \div HeartbeatInterval >= MissedK
        /\ status[c] = "suspected" => status'[c] \in {"suspected", "active", "retired"}
        /\ status[c] = "retired" => status'[c] = "retired"]_vars

\* C16  A clone leaves active only for suspected and only when its last
\* heartbeat is more than 60 seconds old; it leaves suspected only for active
\* or retired; a retired clone never changes state, whatever heartbeat,
\* timeout or reconstruction comes later.
C16_SuspectedAfterTimeout ==
    [][\A c \in Clones :
        /\ (status[c] = "active" /\ status'[c] # "active") =>
                /\ status'[c] = "suspected"
                /\ clock - sibling_states[c] > HEARTBEAT_TIMEOUT
        /\ status[c] = "suspected" => status'[c] \in {"suspected", "active", "retired"}
        /\ status[c] = "retired" => status'[c] = "retired"]_vars

\* A clone was retired and its heartbeat arrived afterwards: the record is
\* fresh and the clone is still retired, while another clone stayed silent as
\* long and is active (it was resurrected, or never looked at).
C16_Witness ==
    \E c, d \in Clones :
        /\ status[c] = "retired"
        /\ sibling_states[c] = clock
        /\ clock > HEARTBEAT_TIMEOUT
        /\ status[d] = "active"
        /\ ret.op = "Reconstruct" /\ ret.ok /\ ret.clone = d

C18_HeartbeatMonotonic ==
    [][/\ \A c \in Clones :
            /\ sibling_states'[c] >= sibling_states[c]
            /\ sibling_states'[c] = seen_max'[c]
       /\ \A h \in inflight :
            (h.ts < sibling_states[h.clone] /\ DeliverHeartbeat(h)) =>
                UNCHANGED sibling_states]_vars

\* A heartbeat was discarded: it was delivered after two later heartbeats
\* of the same clone, and the record still holds the latest of them.
C18_Witness ==
    /\ ret.op = "Heartbeat" /\ ret.err = "discarded"
    /\ inflight = {}
    /\ sibling_states[ret.clone] >= 2 * StepSeconds
    /\ sibling_states[ret.clone] < clock

\* C19  schedule_transaction returns 0 whenever urgency_score > 0.95,
\* whatever the wave; otherwise it returns base_delay + jitter with
\* base_delay = (clone_id mod 10) * 0.1 s and jitter within [0, 0.05] s; clone
\* 24 has base delay 0.4 s, and an urgency_score of exactly 0.95 does not
\* bypass the wave.
C19_ScheduleDelay ==
    /\ BaseDelay(24) = 400
    /\ sched.delay # -1 =>
        /\ sched.urgency_score > 95 => sched.delay = 0
        /\ sched.urgency_score <= 95 =>
            /\ sched.delay - (sched.clone_id % 10) * 100 \in 0..50
            /\ sched.delay >= (sched.clone_id % 10) * 100
        /\ (sched.urgency_score = 95 /\ sched.clone_id % 10 # 0) => sched.delay > 0
        /\ (sched.clone_id = 24 /\ sched.urgency_score <= 95) => sched.delay \in 400..450

\* Clone 24 was scheduled with an urgency of exactly 0.95 and waits for its
\* wave: 0.4 s and the largest jitter.
C19_Witness ==
    /\ sched.clone_id = 24
    /\ sched.urgency_score = 95
    /\ sched.delay = 450

\* C20  Along a propagation path the accuracy never grows and stays within
\* [0, 1]: every fragment sent to a ring has an accuracy that is at most the
\* accuracy of the fragment before it on the path (the discovery itself, with
\* accuracy 1.0, being the first) and that lies between 0 and 1.
C20_AccuracyNonIncreasingInRange ==
    [][prop'.distance > prop.distance =>
        /\ prop'.accuracy <= prop.accuracy
        /\ prop'.accuracy >= 0
        /\ prop'.accuracy <= 100]_vars

\* C21  propagate_discovery never sends a fragment to a ring beyond
\* max_distance nor a fragment whose accuracy is 0 or less: it stops at the
\* first hop where the distance exceeds max_distance or the derived accuracy
\* is not positive.
C21_NeverEmitsDeadFragment ==
    prop.distance > 0 =>
        /\ prop.distance <= prop.max
        /\ prop.accuracy > 0

C23_HeldHasLiveLock ==
    /\ \A i \in DOMAIN reservations :
            reservations[i].state = "held" =>
                LiveHolder(reservations[i].fp) = reservations[i].clone
    /\ \A i, j \in DOMAIN reservations :
            (/\ reservations[i].state = "held"
             /\ reservations[j].state = "held"
             /\ reservations[i].fp = reservations[j].fp) =>
                reservations[i].clone = reservations[j].clone

\* C23  No two reservations were ever made against the same fingerprint, so
\* two different clones never have held reservations against the same
\* fingerprint at the same time, also after the first clone's lock ran out
\* and another clone claimed the fingerprint; and every fingerprint with a
\* reservation has its flag set in opportunityLocks.
C23_OneReservationPerFingerprint ==
    /\ \A i, j \in DOMAIN reservations :
            reservations[i].fp = reservations[j].fp => i = j
    /\ \A i \in DOMAIN reservations : opportunityLocks[reservations[i].fp]

\* A clone holds a reservation against a fingerprint whose live lock now
\* belongs to another clone, and that clone's requestCapital was just denied.
C23_Witness ==
    /\ ret.op = "requestCapital" /\ ~ret.ok /\ ret.err = "Already claimed"
    /\ \E i \in DOMAIN reservations :
            /\ reservations[i].state = "held"
            /\ LiveHolder(reservations[i].fp) \notin {NoClone, reservations[i].clone}
            /\ locks[reservations[i].fp].ttl < LOCK_EX
            /\ ~HasRights(reservations[i].clone, reservations[i].fp)

C25_ListsCapped ==
    [][LET Min(a, b) == IF a < b THEN a ELSE b
           Capped(st) == /\ Len(st.recentTrades) <= MAX_TRADES
                         /\ Len(st.alerts) <= MAX_ALERTS
                         /\ Len(st.performanceHistory) <= MAX_PERFORMANCE_HISTORY
           op == store_call'.op
           type == store_call'.type
           \* new is old with one entry put in front, cut to cap entries
           PutFirst(old, new, cap) ==
               /\ Len(new) = Min(Len(old) + 1, cap)
               /\ SubSeq(new, 2, Len(new)) = SubSeq(old, 1, Len(new) - 1)
           \* new is old with one entry put behind, cut to its last cap entries
           PutLast(old, new, cap) ==
               /\ Len(new) = Min(Len(old) + 1, cap)
               /\ SubSeq(new, 1, Len(new) - 1) =
                     SubSeq(old, Len(old) - Len(new) + 2, Len(old))
       IN  /\ Capped(store) /\ Capped(store')
           /\ (op = "addTrade" \/ type = "new_trade") =>
                 /\ PutFirst(store.recentTrades, store'.recentTrades, MAX_TRADES)
                 /\ op = "addTrade" => store'.recentTrades[1].id = store_call'.id
           /\ (op = "addAlert" \/ type \in {"alert", "clone_spawned", "error"}) =>
                 /\ PutFirst(store.alerts, store'.alerts, MAX_ALERTS)
                 /\ op = "addAlert" => store'.alerts[1].id.n = store_call'.id
                 /\ type = "clone_spawned" => store'.alerts[1] = SpawnAlert(store_clock)
                 /\ type = "error" => store'.alerts[1] = ErrorAlert(store_clock)
           /\ (op = "addPerformanceData" \/ type = "performance_update") =>
                 /\ PutLast(store.performanceHistory, store'.performanceHistory,
                            MAX_PERFORMANCE_HISTORY)
                 /\ op = "addPerformanceData" =>
                       store'.performanceHistory[Len(store'.performanceHistory)].timestamp
                           = store_call'.id]_vars

\* Two trades arrived at a list of MAX_TRADES - 1: the list is full, the new
\* ones are in front, the newer first, and the oldest earlier trade is gone;
\* then a sample arrived at a history of MAX_PERFORMANCE_HISTORY - 1.
C25_Witness ==
    /\ Len(store.recentTrades) = MAX_TRADES
    /\ store.recentTrades[1].id \in (1..NumFreshIds)
    /\ store.recentTrades[2].id \in (1..NumFreshIds)
    /\ store.recentTrades[MAX_TRADES].id = NumFreshIds + MAX_TRADES - 2
    /\ Len(store.performanceHistory) = MAX_PERFORMANCE_HISTORY
    /\ store_call.op = "addPerformanceData"
    /\ store.performanceHistory[MAX_PERFORMANCE_HISTORY].timestamp = store_call.id

\* C26  removeClone(cloneId) removes the clone with that id and every
\* position whose cloneId equals it, and leaves every other clone, every
\* position of other clones, recentTrades, mevOpportunities, marketData,
\* alerts, performanceHistory and connectionState unchanged; for an id that
\* is not among the clones of the store, clones and positions are unchanged.
C26_RemoveCloneFrame ==
    [][store_call'.op = "removeClone" =>
        LET cloneId == store_call'.id
        IN  /\ store'.clones = {c \in store.clones : c.id # cloneId}
            /\ store'.positions = {q \in store.positions : q.cloneId # cloneId}
            /\ \A field \in DOMAIN store \ {"clones", "positions"} :
                  store'[field] = store[field]
            /\ (\A c \in store.clones : c.id # cloneId) =>
                  /\ store'.clones = store.clones
                  /\ store'.positions = store.positions]_vars

\* C26 (amended)  as C26, with the last clause for an id that is neither the
\* id of a clone of the store nor the cloneId of one of its positions: the
\* positions of an id whose clone is not in the store are removed as well.
C26_RemoveCloneFrameUnreferenced ==
    [][store_call'.op = "removeClone" =>
        LET cloneId == store_call'.id
        IN  /\ store'.clones = {c \in store.clones : c.id # cloneId}
            /\ store'.positions = {q \in store.positions : q.cloneId # cloneId}
            /\ \A field \in DOMAIN store \ {"clones", "positions"} :
                  store'[field] = store[field]
            /\ (/\ \A c \in store.clones : c.id # cloneId
                /\ \A q \in store.positions : q.cloneId # cloneId) =>
                  /\ store'.clones = store.clones
                  /\ store'.positions = store.positions]_vars

\* removeClone has removed a clone of the running store with its position:
\* the other clone and its position are still there and the lists are as they
\* were.
C26_Witness ==
    /\ store_call.op = "removeClone"
    /\ store.clones = {c \in RunningState.clones : c.id # store_call.id}
    /\ store.positions = {q \in RunningState.positions : q.cloneId # store_call.id}
    /\ store.clones # {}
    /\ store.positions # {}
    /\ store.recentTrades = RunningState.recentTrades
    /\ store.alerts = RunningState.alerts

\* C27  handleWSMessage changes only the slice of the store that belongs to
\* the type of the message: clone_update only clones, new_trade only
\* recentTrades, position_update only positions, mev_opportunity only
\* mevOpportunities, market_update only marketData, swarm_stats only
\* swarmStats, performance_update only performanceHistory; alert,
\* clone_spawned and error put exactly one entry in front of alerts (the
\* alert of the message, a "Clone Spawned" or a "System Error" alert), keep
\* the alerts that were there in order behind it up to MAX_ALERTS, and change
\* nothing else; no message changes connectionState.
C27_MessageChangesOnlyItsSlice ==
    [][store_call'.op = "handleWSMessage" =>
        LET type == store_call'.type
            slice == CASE type = "clone_update" -> "clones"
                       [] type = "new_trade" -> "recentTrades"
                       [] type = "position_update" -> "positions"
                       [] type = "mev_opportunity" -> "mevOpportunities"
                       [] type = "market_update" -> "marketData"
                       [] type = "swarm_stats" -> "swarmStats"
                       [] type = "performance_update" -> "performanceHistory"
                       [] type \in {"alert", "clone_spawned", "error"} -> "alerts"
            kind == CASE type = "alert" -> "alert"
                      [] type = "clone_spawned" -> "spawn"
                      [] type = "error" -> "error"
            n == Len(store'.alerts)
        IN  /\ \A field \in DOMAIN store \ {slice} : store'[field] = store[field]
            /\ store'.connectionState = store.connectionState
            /\ slice = "alerts" =>
                  /\ n = IF Len(store.alerts) < MAX_ALERTS
                         THEN Len(store.alerts) + 1 ELSE MAX_ALERTS
                  /\ store'.alerts[1].id.kind = kind
                  /\ SubSeq(store'.alerts, 2, n) = SubSeq(store.alerts, 1, n - 1)]_vars

\* An error message has arrived at the running store after the connection
\* was set up: its alert is in front of the alerts that were there, and the
\* clones, the positions, the trades and the connection are as they were.
C27_Witness ==
    /\ store_call.op = "handleWSMessage"
    /\ store_call.type = "error"
    /\ store.alerts = <<ErrorAlert(store_clock - 1)>> \o RunningState.alerts
    /\ store.connectionState.status = "connected"
    /\ store.clones = RunningState.clones
    /\ store.positions = RunningState.positions
    /\ store.recentTrades = RunningState.recentTrades

\* C28  getToken never returns a token whose stored expiry is earlier than
\* the current time: for an expired token it removes authToken, refreshToken
\* and tokenExpiry and returns null, and it returns null when the token or
\* the expiry is missing; isAuthenticated is getToken() !== null; clearToken
\* removes the three keys, and from then on no token is returned until a
\* saveToken (called directly or by a successful refresh) stores one.
C28_NeverReturnsExpiredToken ==
    [][LET token == auth_ret'.token
           missing == localStorage.authToken = NoToken \/ localStorage.tokenExpiry = <<>>
           expired == ~missing /\ ParseInt(localStorage.tokenExpiry) < DateNow
       IN  /\ (GetTokenStep \/ IsAuthenticatedStep) =>
                 /\ token # NoToken =>
                       /\ token = localStorage.authToken
                       /\ ~expired
                       /\ localStorage' = localStorage
                 /\ expired => token = NoToken /\ localStorage' = EmptyStorage
                 /\ missing => token = NoToken /\ localStorage' = localStorage
           /\ ClearTokenStep => localStorage' = EmptyStorage
           /\ (localStorage.authToken = NoToken /\ localStorage'.authToken # NoToken) =>
                 \/ auth_ret'.op = "saveToken"
                 \/ auth_ret'.refreshed = "ok"]_vars

\* getToken has found the stored token expired: it has returned null and
\* the three keys are gone.
C28_Witness ==
    /\ auth_ret.op = "getToken"
    /\ auth_ret.refreshed = "expired"
    /\ auth_ret.token = NoToken
    /\ localStorage = EmptyStorage

\* C29  ensureValidToken asks the refresh endpoint whenever there is no valid
\* access token (missing or expired) and a refresh token is saved; when the
\* endpoint answers successfully it returns the access token just issued and
\* has stored it with expiry now + expires_in seconds; it returns null only
\* when no refresh token was saved or the refresh failed.
C29_RefreshesWithoutValidToken ==
    [][LET missing == localStorage.authToken = NoToken \/ localStorage.tokenExpiry = <<>>
           expired == ~missing /\ ParseInt(localStorage.tokenExpiry) < DateNow
       IN  /\ EnsureValidTokenStep =>
                 /\ ((missing \/ expired) /\ localStorage.refreshToken # NoToken) =>
                       /\ ensure'.pc = "fetch"
                       /\ ensure'.refreshToken = localStorage.refreshToken
                 /\ (ensure'.pc = "idle" /\ auth_ret'.token = NoToken) =>
                       localStorage.refreshToken = NoToken
           /\ \A response \in Responses : EnsureAnswered(response) =>
                 IF response.ok
                 THEN /\ auth_ret'.token = response.access_token
                      /\ localStorage'.authToken = response.access_token
                      /\ ParseInt(localStorage'.tokenExpiry) =
                            DateNow + response.expires_in * 1000
                 ELSE auth_ret'.token = NoToken]_vars

\* C30  With setupAuthInterceptor installed a request answered with 401 is
\* sent again at most once: the first 401 calls refreshAuthToken once and,
\* if the refresh succeeds, the request goes out once more with the new
\* token in its Authorization header; a 401 answer to that retry rejects
\* without another refresh or retry, and so does a failed refresh, which
\* leaves no token in localStorage; every request ends resolved or rejected.
C30_RetriedAtMostOnce ==
    /\ [][/\ request'.sends <= 2
          /\ request'.refreshes <= 1
          /\ AnsweredStep(401) =>
                IF ~request.retry
                THEN /\ request'.refreshes = request.refreshes + 1
                     /\ request'.sends = request.sends
                     /\ request'.pc \in {"response_fetch", "rejected"}
                     /\ request'.pc = "rejected" =>
                           /\ localStorage'.authToken = NoToken
                           /\ localStorage'.refreshToken = NoToken
                ELSE /\ request'.pc = "rejected"
                     /\ request'.refreshes = request.refreshes
                     /\ request'.sends = request.sends
                     /\ localStorage' = localStorage
          /\ \A response \in Responses : ResponseRefreshed(response) =>
                IF response.ok
                THEN /\ request'.pc = "sent"
                     /\ request'.sends = request.sends + 1
                     /\ request'.Authorization = response.access_token
                     /\ localStorage'.authToken = response.access_token
                ELSE /\ request'.pc = "rejected"
                     /\ request'.sends = request.sends
                     /\ localStorage' = EmptyStorage]_vars
    /\ <>(request.pc \in {"resolved", "rejected"})

\* C30 (amended)  as C30, except that a refresh that fails because no refresh
\* token is stored leaves localStorage as it is, access token included: only
\* a refresh that the endpoint fails clears the stored tokens.
C30_RetriedAtMostOnceKeepsToken ==
    /\ [][/\ request'.sends <= 2
          /\ request'.refreshes <= 1
          /\ AnsweredStep(401) =>
                IF ~request.retry
                THEN /\ request'.refreshes = request.refreshes + 1
                     /\ request'.sends = request.sends
                     /\ request'.pc \in {"response_fetch", "rejected"}
                     /\ request'.pc = "rejected" => localStorage' = localStorage
                ELSE /\ request'.pc = "rejected"
                     /\ request'.refreshes = request.refreshes
                     /\ request'.sends = request.sends
                     /\ localStorage' = localStorage
          /\ \A response \in Responses : ResponseRefreshed(response) =>
                IF response.ok
                THEN /\ request'.pc = "sent"
                     /\ request'.sends = request.sends + 1
                     /\ request'.Authorization = response.access_token
                     /\ localStorage'.authToken = response.access_token
                ELSE /\ request'.pc = "rejected"
                     /\ request'.sends = request.sends
                     /\ localStorage' = EmptyStorage]_vars
    /\ <>(request.pc \in {"resolved", "rejected"})

\* The request went out twice and was answered with 401 twice: one refresh
\* in between gave it the token it carries, and it was rejected.
C30_Witness ==
    /\ request.pc = "rejected"
    /\ request.sends = 2
    /\ request.refreshes = 1
    /\ request.retry
    /\ request.Authorization = localStorage.authToken
    /\ request.Authorization # NoToken
====
